---------------------------- MODULE Spec2Model ----------------------------
(***************************************************************************)
(* Verification model of three units of the Web Stories plugin:            *)
(*   - InspectorProvider (inspectorProvider.js): tab selection with its    *)
(*     two auto-reset effects, and the lazy loaders of the statuses and    *)
(*     users reference lists;                                              *)
(*   - OpacityPreview: the opacity text field of the colour picker;        *)
(*   - Analytics (PHP): the <amp-analytics> tag emitter.                   *)
(*                                                                         *)
(* React is modelled as what it is for this code: a setState call changes  *)
(* the component state at once, while the callbacks handed to consumers    *)
(* (loadStatuses, loadUsers) and the effect dependencies keep the values   *)
(* of the last render until the Render step runs again.                    *)
(***************************************************************************)
EXTENDS Integers, Sequences, FiniteSets, TLC

VARIABLES
  \* ---- InspectorProvider: React state (useState) and refs (useRef)
  tab,                 \* useState(DESIGN)
  tabRef,              \* useRef(tab).current
  users,               \* useState([])
  statuses,            \* useState([])
  isUsersLoading,      \* useState(false)
  isStatusesLoading,   \* useState(false)
  \* ---- useStory() state the provider reads
  selectedElementIds,
  currentPage,
  \* ---- what the last render captured (closure values and effect deps)
  rendered,
  prevDeps,            \* the effect deps of the render before the last one
  \* ---- useAPI() collaborators: fetches and their history
  statusFetches,       \* getAllStatuses() promises not yet settled
  userFetches,         \* getAllUsers() promises not yet settled
  getAllStatusesCalls, \* invocations of getAllStatuses so far
  getAllUsersCalls,    \* invocations of getAllUsers so far
  statusRejections,    \* getAllStatuses() promises that rejected so far
  userRejections,      \* getAllUsers() promises that rejected so far
  statusResponse,      \* the data of the last resolved getAllStatuses()
  \* ---- OpacityPreview: props, React state, the DOM's focus
  value,               \* prop: the committed opacity, a fraction
  inputValue,          \* useState('')
  hasPostfix,          \* useState(true)
  focused,             \* whether the <input> has the focus
  onChangeArgs,        \* what the last event handler passed to onChange
  lastEvent,           \* the last event the field handled
  \* ---- Analytics: the WordPress environment and the page output
  siteKitDefined,      \* defined( 'GOOGLESITEKIT_VERSION' )
  activeModulesOption, \* option googlesitekit_active_modules
  legacyModulesOption, \* option googlesitekit-active-modules
  trackingIdOption,    \* option Settings::SETTING_NAME_TRACKING_ID
  printed,             \* print_analytics_tag has run
  output,              \* what print_analytics_tag has echoed
  isSingularStory,     \* is_singular( Story_Post_Type::POST_TYPE_SLUG )
  gtagOpt,             \* the $gtag_opt Site Kit hands to the filter
  filterDone,          \* filter_site_kit_gtag_opt has run
  filterResult         \* what filter_site_kit_gtag_opt returned

inspectorVars ==
  << tab, tabRef, users, statuses, isUsersLoading, isStatusesLoading,
     selectedElementIds, currentPage, rendered, prevDeps,
     statusFetches, userFetches, getAllStatusesCalls, getAllUsersCalls,
     statusRejections, userRejections, statusResponse >>

opacityVars ==
  << value, inputValue, hasPostfix, focused, onChangeArgs, lastEvent >>

filterVars == << isSingularStory, gtagOpt, filterDone, filterResult >>

analyticsVars ==
  << siteKitDefined, activeModulesOption, legacyModulesOption,
     trackingIdOption, printed, output, filterVars >>

vars == << inspectorVars, opacityVars, analyticsVars >>

---------------------------------------------------------------------------
(* Bounds of the model *)

\* getAllStatuses / getAllUsers are invoked at most this many times each
MaxFetches == 3

---------------------------------------------------------------------------
(* InspectorProvider: constants and data *)

DESIGN == "design"
DOCUMENT == "document"
PREPUBLISH == "prepublish"
Tabs == {DESIGN, DOCUMENT, PREPUBLISH}

\* values useStory() can hand over
Selections == { <<>>, <<"a">>, <<"b">> }
Pages == {"page1", "page2"}

\* status records as the REST API returns them, keyed by slug
StatusSlugs == {"draft", "publish"}
StatusName(slug) == IF slug = "draft" THEN "Draft" ELSE "Published"
StatusRecords ==
  { [slug |-> s, name |-> StatusName(s), show_in_list |-> b] :
      s \in StatusSlugs, b \in BOOLEAN }

\* Object.values(data): the records of an object keyed by slug, so the slugs
\* of one response are distinct
StatusResponses ==
  { r \in UNION { [1..n -> StatusRecords] : n \in 0..Cardinality(StatusSlugs) } :
      \A i, j \in DOMAIN r : i # j => r[i].slug # r[j].slug }

UserIds == {1}
UserName(id) == IF id = 1 THEN "admin" ELSE "editor"
UserRecords == { [id |-> i, name |-> UserName(i)] : i \in UserIds }
UserResponses ==
  { r \in UNION { [1..n -> UserRecords] : n \in 0..Cardinality(UserIds) } :
      \A i, j \in DOMAIN r : i # j => r[i].id # r[j].id }

\* Array.prototype.filter with the predicate ({show_in_list}) => show_in_list
RECURSIVE FilterShown(_)
FilterShown(data) ==
  IF data = <<>> THEN <<>>
  ELSE IF Head(data).show_in_list
       THEN <<Head(data)>> \o FilterShown(Tail(data))
       ELSE FilterShown(Tail(data))

\* Array.prototype.map with ({slug, name}) => ({value: slug, name})
MapStatuses(data) ==
  [i \in DOMAIN data |-> [value |-> data[i].slug, name |-> data[i].name]]

\* faulty variant: the filter on show_in_list is left out
StatusesSaveDataUnfiltered(data) == MapStatuses(data)

\* the .then callback of loadStatuses: what it passes to setStatuses
StatusesSaveData(data) == MapStatuses(FilterShown(data))

\* the .then callback of loadUsers: what it passes to setUsers
UsersSaveData(data) ==
  [i \in DOMAIN data |-> [value |-> data[i].id, name |-> data[i].name]]

---------------------------------------------------------------------------
(* InspectorProvider: render and effects *)

\* The values one render of InspectorProvider reads: the dependency lists of
\* the three effects and of the two useCallback closures.
Snapshot ==
  [ mounted            |-> TRUE,
    tab                |-> tab,
    selectedElementIds |-> selectedElementIds,
    currentPage        |-> currentPage,
    isStatusesLoading  |-> isStatusesLoading,
    statusesLength     |-> Len(statuses),
    isUsersLoading     |-> isUsersLoading,
    usersLength        |-> Len(users) ]

Deps(r) ==
  [ mounted            |-> r.mounted,
    tab                |-> r.tab,
    selectedElementIds |-> r.selectedElementIds,
    currentPage        |-> r.currentPage ]

\* useEffect(() => { tabRef.current = tab }, [tab]): the ref after the effect
TabRefEffect ==
  IF ~rendered.mounted \/ tab # rendered.tab THEN tab ELSE tabRef

\* faulty variant: the effect forgets to look at the tab
SelectionEffectResetsAnyTab(ref) ==
  Len(selectedElementIds) > 0

\* body of the selectedElementIds effect: does it call setTab(DESIGN)?
SelectionEffectResets(ref) ==
  Len(selectedElementIds) > 0 /\ ref = DOCUMENT

\* faulty variant: the page effect copies the selection test of its neighbour
PageEffectResetsIfSelected(ref) ==
  Len(selectedElementIds) > 0 /\ ref = DOCUMENT

\* body of the currentPage effect: does it call setTab(DESIGN)?
PageEffectResets(ref) ==
  ref = DOCUMENT

\* faulty variant: the effect reads the tab state and lists it as a
\* dependency, so a change of the tab runs it
SelectionEffectRunsOnTab ==
  \/ ~rendered.mounted
  \/ selectedElementIds # rendered.selectedElementIds
  \/ tab # rendered.tab

\* faulty variant: the effect runs only when the selection was empty before
SelectionEffectRunsFromEmpty ==
  \/ ~rendered.mounted
  \/ /\ rendered.selectedElementIds = <<>>
     /\ selectedElementIds # <<>>

\* the effects run in declaration order, each only when its deps changed
\* (or on the first render)
SelectionEffectRuns ==
  ~rendered.mounted \/ selectedElementIds # rendered.selectedElementIds

PageEffectRuns ==
  ~rendered.mounted \/ currentPage # rendered.currentPage

\* A render of the provider followed by its effects.  React renders when
\* the component is mounted and whenever state or context changed.  Nothing
\* reaches the provider before its first render and effects are done: the
\* context value, and so setTab and the loaders, exist only from then on.
Render ==
  /\ ~rendered.mounted \/ Snapshot # rendered
  /\ rendered' = Snapshot
  /\ prevDeps' = Deps(rendered)
  /\ tabRef' = TabRefEffect
  /\ tab' = IF \/ SelectionEffectRuns /\ SelectionEffectResets(TabRefEffect)
               \/ PageEffectRuns /\ PageEffectResets(TabRefEffect)
            THEN DESIGN
            ELSE tab
  /\ UNCHANGED << users, statuses, isUsersLoading, isStatusesLoading,
                  selectedElementIds, currentPage,
                  statusFetches, userFetches, getAllStatusesCalls,
                  getAllUsersCalls, statusRejections, userRejections,
                  statusResponse >>
  /\ UNCHANGED << opacityVars, analyticsVars >>

\* actions.setTab(t), called by a consumer of the context
SetTab(t) ==
  /\ rendered.mounted
  /\ tab' = t
  /\ UNCHANGED << tabRef, users, statuses, isUsersLoading, isStatusesLoading,
                  selectedElementIds, currentPage, rendered, prevDeps,
                  statusFetches, userFetches, getAllStatusesCalls,
                  getAllUsersCalls, statusRejections, userRejections,
                  statusResponse >>
  /\ UNCHANGED << opacityVars, analyticsVars >>

\* the story store publishes another selection
SelectElements(ids) ==
  /\ rendered.mounted
  /\ ids # selectedElementIds
  /\ selectedElementIds' = ids
  /\ UNCHANGED << tab, tabRef, users, statuses, isUsersLoading,
                  isStatusesLoading, currentPage, rendered, prevDeps,
                  statusFetches, userFetches, getAllStatusesCalls,
                  getAllUsersCalls, statusRejections, userRejections,
                  statusResponse >>
  /\ UNCHANGED << opacityVars, analyticsVars >>

\* the story store publishes another current page
ChangePage(p) ==
  /\ rendered.mounted
  /\ p # currentPage
  /\ currentPage' = p
  /\ UNCHANGED << tab, tabRef, users, statuses, isUsersLoading,
                  isStatusesLoading, selectedElementIds, rendered, prevDeps,
                  statusFetches, userFetches, getAllStatusesCalls,
                  getAllUsersCalls, statusRejections, userRejections,
                  statusResponse >>
  /\ UNCHANGED << opacityVars, analyticsVars >>

---------------------------------------------------------------------------
(* InspectorProvider: the lazy loaders *)

\* faulty variant: a failed load is never tried again
LoadStatusesGuardNoRetry ==
  /\ ~rendered.isStatusesLoading /\ rendered.statusesLength = 0
  /\ statusRejections = 0

\* the guard of loadStatuses, on the values its closure captured
LoadStatusesGuard ==
  ~rendered.isStatusesLoading /\ rendered.statusesLength = 0

\* the guard of loadUsers, on the values its closure captured
LoadUsersGuard ==
  ~rendered.isUsersLoading /\ rendered.usersLength = 0

\* actions.loadStatuses(), through the closure of the last render
LoadStatuses ==
  /\ rendered.mounted
  /\ getAllStatusesCalls < MaxFetches
  /\ IF LoadStatusesGuard
     THEN /\ isStatusesLoading' = TRUE
          /\ getAllStatusesCalls' = getAllStatusesCalls + 1
          /\ statusFetches' = statusFetches + 1
     ELSE UNCHANGED << isStatusesLoading, getAllStatusesCalls, statusFetches >>
  /\ UNCHANGED << tab, tabRef, users, statuses, isUsersLoading,
                  selectedElementIds, currentPage, rendered, prevDeps,
                  userFetches, getAllUsersCalls, statusRejections,
                  userRejections, statusResponse >>
  /\ UNCHANGED << opacityVars, analyticsVars >>

\* getAllStatuses() resolves with data: the .then callback, then .finally.
\* The two callbacks are consecutive microtasks of one promise chain: no
\* event handler runs between them, so they are one step.
ResolveStatuses(data) ==
  /\ statusFetches > 0
  /\ statusFetches' = statusFetches - 1
  /\ statusResponse' = data
  /\ statuses' = StatusesSaveData(data)
  /\ isStatusesLoading' = FALSE
  /\ UNCHANGED << tab, tabRef, users, isUsersLoading,
                  selectedElementIds, currentPage, rendered, prevDeps,
                  userFetches, getAllStatusesCalls, getAllUsersCalls,
                  statusRejections, userRejections >>
  /\ UNCHANGED << opacityVars, analyticsVars >>

\* faulty variant: the flag is cleared in .then only, so not on rejection
RejectStatusesKeepsFlag ==
  /\ statusFetches > 0
  /\ statusFetches' = statusFetches - 1
  /\ statusRejections' = statusRejections + 1
  /\ UNCHANGED << tab, tabRef, users, statuses, isUsersLoading,
                  isStatusesLoading, selectedElementIds, currentPage,
                  rendered, prevDeps, userFetches, getAllStatusesCalls,
                  getAllUsersCalls, userRejections, statusResponse >>
  /\ UNCHANGED << opacityVars, analyticsVars >>

\* getAllStatuses() rejects: .then is skipped, .finally runs
RejectStatuses ==
  /\ statusFetches > 0
  /\ statusFetches' = statusFetches - 1
  /\ statusRejections' = statusRejections + 1
  /\ isStatusesLoading' = FALSE
  /\ UNCHANGED << tab, tabRef, users, statuses, isUsersLoading,
                  selectedElementIds, currentPage, rendered, prevDeps,
                  userFetches, getAllStatusesCalls, getAllUsersCalls,
                  userRejections, statusResponse >>
  /\ UNCHANGED << opacityVars, analyticsVars >>

\* actions.loadUsers(), through the closure of the last render
LoadUsers ==
  /\ rendered.mounted
  /\ getAllUsersCalls < MaxFetches
  /\ IF LoadUsersGuard
     THEN /\ isUsersLoading' = TRUE
          /\ getAllUsersCalls' = getAllUsersCalls + 1
          /\ userFetches' = userFetches + 1
     ELSE UNCHANGED << isUsersLoading, getAllUsersCalls, userFetches >>
  /\ UNCHANGED << tab, tabRef, users, statuses, isStatusesLoading,
                  selectedElementIds, currentPage, rendered, prevDeps,
                  statusFetches, getAllStatusesCalls, statusRejections,
                  userRejections, statusResponse >>
  /\ UNCHANGED << opacityVars, analyticsVars >>

\* getAllUsers() resolves with data: the .then callback, then .finally
ResolveUsers(data) ==
  /\ userFetches > 0
  /\ userFetches' = userFetches - 1
  /\ users' = UsersSaveData(data)
  /\ isUsersLoading' = FALSE
  /\ UNCHANGED << tab, tabRef, statuses, isStatusesLoading,
                  selectedElementIds, currentPage, rendered, prevDeps,
                  statusFetches, getAllStatusesCalls, getAllUsersCalls,
                  statusRejections, userRejections, statusResponse >>
  /\ UNCHANGED << opacityVars, analyticsVars >>

\* getAllUsers() rejects: .then is skipped, .finally runs
RejectUsers ==
  /\ userFetches > 0
  /\ userFetches' = userFetches - 1
  /\ userRejections' = userRejections + 1
  /\ isUsersLoading' = FALSE
  /\ UNCHANGED << tab, tabRef, users, statuses, isStatusesLoading,
                  selectedElementIds, currentPage, rendered, prevDeps,
                  statusFetches, getAllStatusesCalls, getAllUsersCalls,
                  statusRejections, statusResponse >>
  /\ UNCHANGED << opacityVars, analyticsVars >>

---------------------------------------------------------------------------
(* OpacityPreview: texts and numbers *)

\* A text is a sequence of one-character strings.  The texts typed into the
\* field are drawn from TypedChars, up to MaxTyped characters.
MaxTyped == 3
TypedChars == {"0", "1", "-", "a"}
TypedTexts == UNION { [1..n -> TypedChars] : n \in 0..MaxTyped }

Digits == <<"0", "1", "2", "3", "4", "5", "6", "7", "8", "9">>
IsDigit(c) == \E d \in DOMAIN Digits : Digits[d] = c
DigitValue(c) == (CHOOSE d \in DOMAIN Digits : Digits[d] = c) - 1

\* A JavaScript number: NaN, or the exact fraction num/den
NaN == [nan |-> TRUE, num |-> 0, den |-> 1]
Number(n, d) == [nan |-> FALSE, num |-> n, den |-> d]
isNaN(x) == x.nan

RECURSIVE TrimStart(_)
TrimStart(s) ==
  IF s # <<>> /\ Head(s) = " " THEN TrimStart(Tail(s)) ELSE s

RECURSIVE ParseDigits(_, _, _)
ParseDigits(s, acc, seen) ==
  IF s # <<>> /\ IsDigit(Head(s))
  THEN ParseDigits(Tail(s), acc * 10 + DigitValue(Head(s)), TRUE)
  ELSE IF seen THEN Number(acc, 1) ELSE NaN

\* parseInt(string) of ECMAScript on texts without a 0x prefix: leading
\* white space is skipped, a sign is read, then the longest run of decimal
\* digits; NaN when there is no digit
parseInt(s) ==
  LET t == TrimStart(s)
      signed == t # <<>> /\ Head(t) \in {"-", "+"}
      r == ParseDigits(IF signed THEN Tail(t) ELSE t, 0, FALSE)
  IN IF isNaN(r) THEN NaN
     ELSE IF signed /\ Head(t) = "-" THEN Number(-r.num, 1) ELSE r

\* x / 100
DividedBy100(x) == IF isNaN(x) THEN NaN ELSE Number(x.num, x.den * 100)

RECURSIVE NatToText(_)
NatToText(n) ==
  IF n < 10 THEN << Digits[n + 1] >>
  ELSE NatToText(n \div 10) \o << Digits[(n % 10) + 1] >>

\* String(n) for an integer n, as a template literal renders it
NumberToText(n) == IF n < 0 THEN <<"-">> \o NatToText(-n) ELSE NatToText(n)

\* getPreviewOpacity(value): the opacity as a whole percentage
getPreviewOpacity(v) == (v.num * 100) \div v.den

\* _x('%', 'Percentage', 'web-stories')
postfix == <<"%">>

---------------------------------------------------------------------------
(* OpacityPreview: handlers *)

\* values the parent passes as the value prop on its own account
ExternalValues == { Number(0, 100), Number(50, 100), Number(100, 100) }

\* the value attribute the render hands to <Input>
DisplayedText == IF hasPostfix THEN inputValue \o postfix ELSE inputValue

\* updateFromValue: what it passes to setInputValue
UpdateFromValue(v) == NumberToText(getPreviewOpacity(v))

\* faulty variant: the division by 100 is left out
HandleChangeCallsPercent(text) ==
  LET val == parseInt(text)
  IN IF ~isNaN(val) THEN << val >> ELSE <<>>

\* faulty variant: the isNaN guard is left out
HandleChangeCallsUnguarded(text) ==
  << DividedBy100(parseInt(text)) >>

\* handleChange: the arguments of its calls of onChange, in order
HandleChangeCalls(text) ==
  LET val == DividedBy100(parseInt(text))
  IN IF ~isNaN(val) THEN << val >> ELSE <<>>

\* faulty variant: handleBlur only restores the postfix
HandleBlurInputKept == inputValue

\* handleBlur: the text buffer after updateFromValue()
HandleBlurInput == UpdateFromValue(value)

Event(type, text) == [type |-> type, text |-> text]

\* first render, then the effect [updateFromValue, value]
MountOpacity ==
  /\ lastEvent.type = "init"
  /\ inputValue' = UpdateFromValue(value)
  /\ lastEvent' = Event("mount", <<>>)
  /\ onChangeArgs' = <<>>
  /\ UNCHANGED << value, hasPostfix, focused >>
  /\ UNCHANGED << inspectorVars, analyticsVars >>

\* onFocus={disablePostfix}
Focus ==
  /\ lastEvent.type # "init"
  /\ ~focused
  /\ focused' = TRUE
  /\ hasPostfix' = FALSE
  /\ lastEvent' = Event("focus", <<>>)
  /\ onChangeArgs' = <<>>
  /\ UNCHANGED << value, inputValue >>
  /\ UNCHANGED << inspectorVars, analyticsVars >>

\* onBlur={handleBlur}
Blur ==
  /\ lastEvent.type # "init"
  /\ focused
  /\ focused' = FALSE
  /\ hasPostfix' = TRUE
  /\ inputValue' = HandleBlurInput
  /\ lastEvent' = Event("blur", <<>>)
  /\ onChangeArgs' = <<>>
  /\ UNCHANGED << value >>
  /\ UNCHANGED << inspectorVars, analyticsVars >>

\* onChange={handleChange} with evt.target.value = text
Change(text) ==
  /\ lastEvent.type # "init"
  /\ inputValue' = text
  /\ onChangeArgs' = HandleChangeCalls(text)
  /\ lastEvent' = Event("change", text)
  /\ UNCHANGED << value, hasPostfix, focused >>
  /\ UNCHANGED << inspectorVars, analyticsVars >>

\* the parent renders the field with the value prop v: the effect
\* [updateFromValue, value] runs
SetValue(v) ==
  /\ lastEvent.type # "init"
  /\ value' = v
  /\ inputValue' = UpdateFromValue(v)
  /\ lastEvent' = Event("value", <<>>)
  /\ onChangeArgs' = <<>>
  /\ UNCHANGED << hasPostfix, focused >>
  /\ UNCHANGED << inspectorVars, analyticsVars >>

\* the parent commits what onChange was given and renders the field with it
CommitChange ==
  /\ onChangeArgs # <<>>
  /\ SetValue(onChangeArgs[Len(onChangeArgs)])

---------------------------------------------------------------------------
(* Analytics: the WordPress environment *)

\* What get_option() returns for a module-list option: an array of slugs, or
\* something that is not an array (false when the option is not set).
ModuleLists ==
  { <<>>, <<"analytics">>, <<"search-console">>,
    <<"search-console", "analytics">> }
ModuleOptionValues ==
  { [is_array |-> FALSE, items |-> <<>>] } \cup
  { [is_array |-> TRUE, items |-> l] : l \in ModuleLists }

\* What get_option() returns for the tracking ID setting: false when the
\* option is not set, else the stored string.
TrackingIds == {"", "0", "UA-123"}
TrackingOptionValues ==
  { [is_set |-> FALSE, str |-> ""] } \cup
  { [is_set |-> TRUE, str |-> t] : t \in TrackingIds }

\* in_array( $needle, $haystack, true )
RECURSIVE in_array(_, _)
in_array(needle, haystack) ==
  IF haystack = <<>> THEN FALSE
  ELSE Head(haystack) = needle \/ in_array(needle, Tail(haystack))

\* PHP's conversion of a string to bool: "" and "0" are false
PhpTruthy(str) == str # "" /\ str # "0"

\* faulty variant: an empty first option falls through to the legacy option
get_site_kit_active_modules_option_nonempty ==
  IF ~siteKitDefined THEN <<>>
  ELSE IF activeModulesOption.is_array /\ activeModulesOption.items # <<>>
  THEN activeModulesOption.items
  ELSE IF legacyModulesOption.is_array THEN legacyModulesOption.items
  ELSE <<>>

get_site_kit_active_modules_option ==
  IF ~siteKitDefined THEN <<>>
  ELSE IF activeModulesOption.is_array THEN activeModulesOption.items
  ELSE IF legacyModulesOption.is_array THEN legacyModulesOption.items
  ELSE <<>>

is_site_kit_analytics_module_active ==
  in_array("analytics", get_site_kit_active_modules_option)

\* (string) get_option( ... ): false casts to ""
get_tracking_id ==
  IF trackingIdOption.is_set THEN trackingIdOption.str ELSE ""

---------------------------------------------------------------------------
(* Analytics: the configuration *)

\* faulty variant: the tracking ID is written in a single-quoted string
EventVarsUnsubstituted(action, tracking_id) ==
  [ event_name     |-> "custom",
    event_action   |-> action,
    event_category |-> "${title}",
    send_to        |-> "$tracking_id" ]

\* the vars every trigger has
EventVars(action, tracking_id) ==
  [ event_name     |-> "custom",
    event_action   |-> action,
    event_category |-> "${title}",
    send_to        |-> tracking_id ]

EventTrigger(on, action, tracking_id) ==
  [ on |-> on, request |-> "event", vars |-> EventVars(action, tracking_id) ]

ClickTrigger(on, action, tracking_id) ==
  [ on |-> on, tagName |-> "a", request |-> "click ",
    vars |-> EventVars(action, tracking_id) ]

TriggerNames ==
  { "storyProgress", "storyEnd", "trackFocusState", "trackClickThrough",
    "storyOpen", "storyClose", "audioMuted", "audioUnmuted",
    "pageAttachmentEnter", "pageAttachmentExit" }

DefaultTriggers(tracking_id) ==
  [ storyProgress |->
      [ on |-> "story-page-visible", request |-> "event",
        vars |-> [ event_name     |-> "custom",
                   event_action   |-> "story_progress",
                   event_category |-> "${title}",
                   event_label    |-> "${storyPageIndex}",
                   event_value    |-> "${storyProgress}",
                   send_to        |-> tracking_id ] ],
    storyEnd |->
      [ on |-> "story-last-page-visible", request |-> "event",
        vars |-> [ event_name     |-> "custom",
                   event_action   |-> "story_complete",
                   event_category |-> "${title}",
                   event_label    |-> "${storyPageCount}",
                   send_to        |-> tracking_id ] ],
    trackFocusState |->
      ClickTrigger("story-focus", "story_focus", tracking_id),
    trackClickThrough |->
      ClickTrigger("story-click-through", "story_click_through", tracking_id),
    storyOpen |->
      EventTrigger("story-open", "story_open", tracking_id),
    storyClose |->
      EventTrigger("story-close", "story_close", tracking_id),
    audioMuted |->
      EventTrigger("story-audio-muted", "story_audio_muted", tracking_id),
    audioUnmuted |->
      EventTrigger("story-audio-unmuted", "story_audio_unmuted", tracking_id),
    pageAttachmentEnter |->
      EventTrigger("story-page-attachment-enter",
                   "story_page_attachment_enter", tracking_id),
    pageAttachmentExit |->
      EventTrigger("story-page-attachment-exit",
                   "story_page_attachment_exit", tracking_id) ]

\* apply_filters( 'web_stories_analytics_configuration', $config ) with no
\* callback registered by a third party
apply_filters(config) == config

get_default_configuration(tracking_id) ==
  apply_filters(
    [ vars     |-> [ gtag_id |-> tracking_id,
                     config  |-> (tracking_id :> [groups |-> "default"]) ],
      triggers |-> DefaultTriggers(tracking_id) ])

---------------------------------------------------------------------------
(* Analytics: print_analytics_tag *)

AmpAnalyticsTag(config) ==
  [ tag |-> "amp-analytics", type |-> "gtag",
    credentials |-> "include", json |-> config ]

\* faulty variant: the Site Kit check is left out
PrintAnalyticsOutputNoSiteKitCheck ==
  IF ~PhpTruthy(get_tracking_id) THEN <<>>
  ELSE << AmpAnalyticsTag(get_default_configuration(get_tracking_id)) >>

\* what print_analytics_tag echoes: nothing, or the one tag
PrintAnalyticsOutput ==
  IF is_site_kit_analytics_module_active THEN <<>>
  ELSE IF ~PhpTruthy(get_tracking_id) THEN <<>>
  ELSE << AmpAnalyticsTag(get_default_configuration(get_tracking_id)) >>

\* do_action( 'web_stories_print_analytics' )
print_analytics_tag ==
  /\ ~printed
  /\ printed' = TRUE
  /\ output' = output \o PrintAnalyticsOutput
  /\ UNCHANGED << siteKitDefined, activeModulesOption, legacyModulesOption,
                  trackingIdOption, filterVars >>
  /\ UNCHANGED << inspectorVars, opacityVars >>

---------------------------------------------------------------------------
(* Analytics: filter_site_kit_gtag_opt *)

\* A PHP array with string keys is a function on its keys; [] is <<>>.
EmptyArray == <<>>

\* isset( $array[ $key ] )
isset(array, key) == key \in DOMAIN array

\* $array[ $key ] = $val
SetKey(array, key, val) ==
  [k \in DOMAIN array \cup {key} |-> IF k = key THEN val ELSE array[k]]

\* faulty variant: the arguments are taken in the other order
array_merge_first_wins(a, b) ==
  [k \in DOMAIN a \cup DOMAIN b |-> IF k \in DOMAIN a THEN a[k] ELSE b[k]]

\* array_merge( $a, $b ) on arrays with string keys: the keys of both, a key
\* of both with the value of $b
array_merge(a, b) ==
  [k \in DOMAIN a \cup DOMAIN b |-> IF k \in DOMAIN b THEN b[k] ELSE a[k]]

\* triggers Site Kit or another plugin may have put into $gtag_opt
ExternalTriggers ==
  { [on |-> "visible", request |-> "pageview"],
    [on |-> "click", request |-> "event"] }
ExternalTriggerKeys == {"storyEnd", "siteKitEvent"}
ExternalTriggerArrays ==
  UNION { [keys -> ExternalTriggers] : keys \in SUBSET ExternalTriggerKeys }

GtagIds == {"UA-123", "UA-999"}

\* the $gtag_opt arrays handed to the filter: vars.gtag_id always, triggers
\* and a further key (optoutElementId) or not
GtagOpts ==
  LET base == { [vars |-> [gtag_id |-> id, config |-> "site-kit"]] :
                  id \in GtagIds }
      withTriggers ==
        base \cup { SetKey(g, "triggers", t) :
                      g \in base, t \in ExternalTriggerArrays }
  IN withTriggers \cup
       { SetKey(g, "optoutElementId", "__gaOptOutExtension") :
           g \in withTriggers }

\* what filter_site_kit_gtag_opt( $gtag_opt ) returns
FilterSiteKitGtagOpt(gtag_opt) ==
  IF ~isSingularStory THEN gtag_opt
  ELSE
    LET config == get_default_configuration(gtag_opt.vars.gtag_id)
        default_triggers ==
          IF isset(config, "triggers") THEN config.triggers ELSE EmptyArray
        own_triggers ==
          IF isset(gtag_opt, "triggers") THEN gtag_opt.triggers ELSE EmptyArray
    IN SetKey(gtag_opt, "triggers",
              array_merge(default_triggers, own_triggers))

\* apply_filters( 'googlesitekit_amp_gtag_opt', $gtag_opt ), run by Site Kit
filter_site_kit_gtag_opt ==
  /\ ~filterDone
  /\ filterDone' = TRUE
  /\ filterResult' = FilterSiteKitGtagOpt(gtagOpt)
  /\ UNCHANGED << isSingularStory, gtagOpt >>
  /\ UNCHANGED << siteKitDefined, activeModulesOption, legacyModulesOption,
                  trackingIdOption, printed, output >>
  /\ UNCHANGED << inspectorVars, opacityVars >>

---------------------------------------------------------------------------
(* Specifications *)

\* the provider as constructed, before its first render and effects
InitInspector ==
  /\ tab = DESIGN
  /\ tabRef = DESIGN
  /\ users = <<>>
  /\ statuses = <<>>
  /\ isUsersLoading = FALSE
  /\ isStatusesLoading = FALSE
  /\ selectedElementIds \in Selections
  /\ currentPage \in Pages
  /\ rendered = [Snapshot EXCEPT !.mounted = FALSE]
  /\ prevDeps = Deps(rendered)
  /\ statusFetches = 0
  /\ userFetches = 0
  /\ getAllStatusesCalls = 0
  /\ getAllUsersCalls = 0
  /\ statusRejections = 0
  /\ userRejections = 0
  /\ statusResponse = <<>>

\* the field as constructed, before its first effect
InitOpacity ==
  /\ value \in ExternalValues
  /\ inputValue = <<>>
  /\ hasPostfix = TRUE
  /\ focused = FALSE
  /\ onChangeArgs = <<>>
  /\ lastEvent = Event("init", <<>>)

\* Site Kit about to apply its filter googlesitekit_amp_gtag_opt
InitFilter ==
  /\ isSingularStory \in BOOLEAN
  /\ gtagOpt \in GtagOpts
  /\ filterDone = FALSE
  /\ filterResult = EmptyArray

IdleFilter ==
  /\ InitFilter
  /\ isSingularStory
  /\ gtagOpt = [vars |-> [gtag_id |-> "UA-123", config |-> "site-kit"]]

\* a request for a story page, in any WordPress environment
InitAnalytics ==
  /\ siteKitDefined \in BOOLEAN
  /\ activeModulesOption \in ModuleOptionValues
  /\ legacyModulesOption \in ModuleOptionValues
  /\ trackingIdOption \in TrackingOptionValues
  /\ printed = FALSE
  /\ output = <<>>
  /\ IdleFilter

\* each unit is checked on its own: the other two stay in one initial state
IdleInspector ==
  /\ InitInspector
  /\ selectedElementIds = <<>>
  /\ currentPage = "page1"

IdleOpacity ==
  /\ InitOpacity
  /\ value = Number(100, 100)

IdleAnalytics ==
  /\ InitAnalytics
  /\ ~siteKitDefined
  /\ ~activeModulesOption.is_array
  /\ ~legacyModulesOption.is_array
  /\ ~trackingIdOption.is_set

\* tab selection: the consumers' setTab, the story store, the renders
InitTabs == InitInspector /\ IdleOpacity /\ IdleAnalytics

NextTabs ==
  \/ Render
  \/ \E t \in Tabs : SetTab(t)
  \/ \E ids \in Selections : SelectElements(ids)
  \/ \E p \in Pages : ChangePage(p)

SpecTabs == InitTabs /\ [][NextTabs]_vars

\* lazy loaders: the consumers' load calls, the fetch outcomes, the renders
InitLoaders == IdleInspector /\ IdleOpacity /\ IdleAnalytics

NextLoaders ==
  \/ Render
  \/ LoadStatuses
  \/ \E data \in StatusResponses : ResolveStatuses(data)
  \/ RejectStatuses
  \/ LoadUsers
  \/ \E data \in UserResponses : ResolveUsers(data)
  \/ RejectUsers

SpecLoaders == InitLoaders /\ [][NextLoaders]_vars

\* The same, with every started fetch settling in the end: a promise of
\* getAllStatuses() or getAllUsers() resolves or rejects.  The loaders look
\* at the length of the stored list only, so one response of each kind is
\* taken here: no record, a record that is filtered out, a record that is
\* stored.
SettlingStatusResponses ==
  { r \in StatusResponses :
      \/ r = <<>>
      \/ Len(r) = 1 /\ r[1].slug = "draft" /\ ~r[1].show_in_list
      \/ Len(r) = 1 /\ r[1].slug = "publish" /\ r[1].show_in_list }

SettleStatuses ==
  \/ \E data \in SettlingStatusResponses : ResolveStatuses(data)
  \/ RejectStatuses

SettleUsers ==
  \/ \E data \in UserResponses : ResolveUsers(data)
  \/ RejectUsers

NextLoadersFair ==
  \/ Render
  \/ LoadStatuses
  \/ SettleStatuses
  \/ LoadUsers
  \/ SettleUsers

SpecLoadersFair ==
  /\ InitLoaders /\ [][NextLoadersFair]_vars
  /\ WF_vars(SettleStatuses) /\ WF_vars(SettleUsers)

\* the opacity field: the user's events and the parent's renders
InitOpacityField == IdleInspector /\ InitOpacity /\ IdleAnalytics

NextOpacity ==
  \/ MountOpacity
  \/ Focus
  \/ Blur
  \/ \E text \in TypedTexts : Change(text)
  \/ \E v \in ExternalValues : SetValue(v)
  \/ CommitChange

SpecOpacity == InitOpacityField /\ [][NextOpacity]_vars

\* the analytics emitter in every environment
InitEmitter == IdleInspector /\ IdleOpacity /\ InitAnalytics

NextAnalytics == print_analytics_tag

SpecAnalytics == InitEmitter /\ [][NextAnalytics]_vars

\* the Site Kit filter on every $gtag_opt, on story pages and elsewhere
InitSiteKitFilter ==
  /\ IdleInspector /\ IdleOpacity
  /\ siteKitDefined = TRUE
  /\ activeModulesOption = [is_array |-> TRUE, items |-> <<"analytics">>]
  /\ legacyModulesOption = [is_array |-> FALSE, items |-> <<>>]
  /\ trackingIdOption \in TrackingOptionValues
  /\ printed = FALSE
  /\ output = <<>>
  /\ InitFilter

NextSiteKitFilter ==
  \/ filter_site_kit_gtag_opt
  \/ print_analytics_tag

SpecSiteKitFilter == InitSiteKitFilter /\ [][NextSiteKitFilter]_vars

\* the whole: every unit in every initial state, every action
Init ==
  /\ InitInspector /\ InitOpacity
  /\ siteKitDefined \in BOOLEAN
  /\ activeModulesOption \in ModuleOptionValues
  /\ legacyModulesOption \in ModuleOptionValues
  /\ trackingIdOption \in TrackingOptionValues
  /\ printed = FALSE
  /\ output = <<>>
  /\ InitFilter

Next ==
  NextTabs \/ NextLoaders \/ NextOpacity \/ NextAnalytics \/ NextSiteKitFilter

Spec == Init /\ [][Next]_vars

---------------------------------------------------------------------------
(* Properties of the lazy loaders (SpecLoaders) *)

\* C1: for each reference list at most one fetch is in flight at any time,
\* whatever the interleaving of load calls, renders and fetch completions.
C1_AtMostOneFetchInFlight ==
  statusFetches <= 1 /\ userFetches <= 1

\* C2: over the lifetime of the provider getAllStatuses is invoked at most
\* once and getAllUsers is invoked at most once.
C2_FetchedAtMostOnce ==
  getAllStatusesCalls <= 1 /\ getAllUsersCalls <= 1

\* a load call made now, through the closure of the last render, invokes the
\* fetch capability
LoadStatusesFetches ==
  ENABLED (LoadStatuses /\ getAllStatusesCalls' = getAllStatusesCalls + 1)

LoadUsersFetches ==
  ENABLED (LoadUsers /\ getAllUsersCalls' = getAllUsersCalls + 1)

C3_RetryAfterRejection ==
  /\ ( /\ statusRejections > 0
       /\ statuses = <<>>
       /\ ~rendered.isStatusesLoading /\ rendered.statusesLength = 0
       /\ getAllStatusesCalls < MaxFetches )
     => LoadStatusesFetches
  /\ ( /\ userRejections > 0
       /\ users = <<>>
       /\ ~rendered.isUsersLoading /\ rendered.usersLength = 0
       /\ getAllUsersCalls < MaxFetches )
     => LoadUsersFetches

C3_RejectionStep ==
  /\ statusRejections' # statusRejections
     => statuses' = statuses /\ isStatusesLoading' = FALSE
  /\ userRejections' # userRejections
     => users' = users /\ isUsersLoading' = FALSE

\* C3: a rejected fetch leaves its list as it was (empty stays empty) and
\* clears its loading flag, and a load call made once a render has seen the
\* cleared flag and the empty list invokes the fetch capability again, after
\* any number of rejections.
C3_RejectionClearsFlagAndAllowsRetry ==
  [] C3_RetryAfterRejection /\ [][C3_RejectionStep]_vars

\* two rejections in a row on each list, and a third fetch in flight
C3_Witness ==
  /\ statusRejections = 2 /\ getAllStatusesCalls = 3 /\ statusFetches = 1
  /\ statuses = <<>>
  /\ userRejections = 2 /\ getAllUsersCalls = 3 /\ userFetches = 1
  /\ users = <<>>

\* getAllStatuses() promises that resolved so far
statusResolutions == getAllStatusesCalls - statusFetches - statusRejections

\* C6: after a fetch of the statuses resolved with the records R, the stored
\* list is the records of R with show_in_list set, in the order of R, each
\* as {value: slug, name}; no hidden record is in the list.
C6_StatusesAreShownRecordsInOrder ==
  statusResolutions > 0 =>
    LET R == statusResponse
        shown == { i \in DOMAIN R : R[i].show_in_list }
    IN /\ Len(statuses) = Cardinality(shown)
       /\ \E pick \in [DOMAIN statuses -> shown] :
            /\ \A k, l \in DOMAIN statuses : k < l => pick[k] < pick[l]
            /\ \A k \in DOMAIN statuses :
                 statuses[k] = [value |-> R[pick[k]].slug,
                                name  |-> R[pick[k]].name]

\* the example of the specification: draft hidden, publish shown
C6_Witness ==
  /\ statusResolutions > 0
  /\ statusResponse =
       << [slug |-> "draft", name |-> "Draft", show_in_list |-> FALSE],
          [slug |-> "publish", name |-> "Published", show_in_list |-> TRUE] >>
  /\ statuses = << [value |-> "publish", name |-> "Published"] >>

---------------------------------------------------------------------------
(* Properties of the tab selection (SpecTabs) *)

\* a step that renders the mounted provider
RenderStep == rendered.mounted /\ rendered' # rendered

\* C4: rule A.  When a render meets a selection that went from empty to
\* non-empty, a tab 'document' becomes 'design' and a tab 'design' or
\* 'prepublish' is left as it is.
C4_RuleA ==
  [][ ( /\ RenderStep
        /\ rendered.selectedElementIds = <<>>
        /\ rendered'.selectedElementIds # <<>> )
      => IF tab = DOCUMENT THEN tab' = DESIGN ELSE tab' = tab ]_vars

\* the last render met a selection gone from empty to non-empty, on the same
\* page, with the tab 'document', and the tab is back to 'design'
C4_Witness ==
  /\ prevDeps.mounted
  /\ prevDeps.selectedElementIds = <<>>
  /\ rendered.selectedElementIds # <<>>
  /\ prevDeps.currentPage = rendered.currentPage
  /\ rendered.tab = DOCUMENT
  /\ tabRef = DOCUMENT
  /\ tab = DESIGN

\* C5: rule B.  When a render meets another current page, a tab 'document'
\* becomes 'design' and a tab 'design' or 'prepublish' is left as it is,
\* with or without a selection; the run of the rule at mount leaves the
\* default tab 'design'.
C5_RuleB ==
  [][ /\ ( RenderStep /\ rendered'.currentPage # rendered.currentPage )
         => IF tab = DOCUMENT THEN tab' = DESIGN ELSE tab' = tab
      /\ ( ~rendered.mounted /\ rendered'.mounted )
         => tab' = DESIGN ]_vars

\* the last render met another page, with nothing selected before and after
\* and the tab 'document', and the tab is back to 'design'
C5_Witness ==
  /\ prevDeps.mounted
  /\ prevDeps.currentPage # rendered.currentPage
  /\ prevDeps.selectedElementIds = <<>>
  /\ rendered.selectedElementIds = <<>>
  /\ rendered.tab = DOCUMENT
  /\ tabRef = DOCUMENT
  /\ tab = DESIGN

---------------------------------------------------------------------------
(* Properties of the opacity field (SpecOpacity) *)

\* C7: a typed text that parseInt reads as an integer n >= 0 makes the
\* change handler call onChange once, with n/100.
C7_ParsedTextIsPassedOn ==
  lastEvent.type = "change" =>
    LET n == parseInt(lastEvent.text)
    IN (~isNaN(n) /\ n.num >= 0) => onChangeArgs = << Number(n.num, 100) >>

\* "011" was typed, and onChange got 11/100
C7_Witness ==
  /\ lastEvent = Event("change", <<"0", "1", "1">>)
  /\ onChangeArgs = << Number(11, 100) >>

C8_NoCallAndTypedTextShown ==
  (lastEvent.type = "change" /\ isNaN(parseInt(lastEvent.text))) =>
    /\ onChangeArgs = <<>>
    /\ DisplayedText =
         IF focused THEN lastEvent.text ELSE lastEvent.text \o <<"%">>

C8_ValueKept ==
  (lastEvent'.type = "change" /\ isNaN(parseInt(lastEvent'.text)))
    => value' = value

\* C8: a typed text that parseInt does not read as a number leads to no call
\* of onChange, leaves the committed value as it is, and is displayed as
\* typed, with the '%' suffix exactly when the field has not the focus.
C8_UnparsedTextStaysLocal ==
  [] C8_NoCallAndTypedTextShown /\ [][C8_ValueKept]_vars

\* "-a" typed into the field while it has not the focus
C8_Witness ==
  /\ lastEvent = Event("change", <<"-", "a">>)
  /\ ~focused
  /\ DisplayedText = <<"-", "a", "%">>
  /\ onChangeArgs = <<>>

\* C9: after a blur the displayed text is the preview (getPreviewOpacity) of
\* the committed value followed by '%', whatever was typed before.
C9_BlurRestoresCommittedValue ==
  lastEvent.type = "blur" =>
    DisplayedText = NumberToText(getPreviewOpacity(value)) \o <<"%">>

\* the field lost the focus while the committed value is 50/100
C9_Witness ==
  /\ lastEvent.type = "blur"
  /\ value = Number(50, 100)
  /\ DisplayedText = <<"5", "0", "%">>

---------------------------------------------------------------------------
(* Properties of the analytics emitter (SpecAnalytics) *)

\* print_analytics_tag has echoed the <amp-analytics> tag, once
TagEmitted ==
  Len(output) = 1 /\ output[1].tag = "amp-analytics"

\* C10 as stated: the tag is emitted if and only if the Site Kit analytics
\* module is not active and the tracking ID is not the empty string.
C10_EmitsIffInactiveAndNonEmptyId ==
  printed =>
    /\ TagEmitted <=>
         (~is_site_kit_analytics_module_active /\ get_tracking_id # "")
    /\ ~TagEmitted => output = <<>>

\* C10, amended: the tag is emitted if and only if the Site Kit analytics
\* module is not active and the tracking ID is neither empty nor "0" (the
\* strings PHP takes for false); with the module active nothing is echoed
\* for any tracking ID, and with no tracking ID set nothing is echoed.
C10_EmitsIffInactiveAndTruthyId ==
  printed =>
    /\ TagEmitted <=>
         ( /\ ~is_site_kit_analytics_module_active
           /\ get_tracking_id \notin {"", "0"} )
    /\ ~TagEmitted => output = <<>>
    /\ is_site_kit_analytics_module_active => output = <<>>
    /\ ~trackingIdOption.is_set => output = <<>>

\* Site Kit is there with another module active, and the tag is emitted
C10_Witness ==
  /\ printed
  /\ siteKitDefined
  /\ activeModulesOption = [is_array |-> TRUE, items |-> <<"search-console">>]
  /\ trackingIdOption = [is_set |-> TRUE, str |-> "UA-123"]
  /\ TagEmitted
  /\ output[1].json.vars.gtag_id = "UA-123"

\* the configuration in the emitted tag
EmittedConfiguration == output[1].json

\* C11 as stated: with the tracking ID T and no competing module the emitted
\* configuration has vars.gtag_id = T and its triggers are nine, each with
\* vars.send_to = T.
C11_NineTriggersSendToId ==
  TagEmitted =>
    /\ EmittedConfiguration.vars.gtag_id = get_tracking_id
    /\ Cardinality(DOMAIN EmittedConfiguration.triggers) = 9
    /\ \A t \in DOMAIN EmittedConfiguration.triggers :
         EmittedConfiguration.triggers[t].vars.send_to = get_tracking_id

\* C11, amended: with the tracking ID T and no competing module the emitted
\* configuration has vars.gtag_id = T and its triggers are the ten named
\* ones, each with vars.send_to = T.
C11_TenTriggersSendToId ==
  TagEmitted =>
    /\ EmittedConfiguration.vars.gtag_id = get_tracking_id
    /\ DOMAIN EmittedConfiguration.triggers =
         { "storyProgress", "storyEnd", "trackFocusState",
           "trackClickThrough", "storyOpen", "storyClose", "audioMuted",
           "audioUnmuted", "pageAttachmentEnter", "pageAttachmentExit" }
    /\ Cardinality(DOMAIN EmittedConfiguration.triggers) = 10
    /\ \A t \in DOMAIN EmittedConfiguration.triggers :
         EmittedConfiguration.triggers[t].vars.send_to = get_tracking_id

\* the tag is emitted for UA-123 where Site Kit is not installed
C11_Witness ==
  /\ printed
  /\ ~siteKitDefined
  /\ get_tracking_id = "UA-123"
  /\ TagEmitted
  /\ EmittedConfiguration.triggers.storyEnd.vars.send_to = "UA-123"

---------------------------------------------------------------------------
(* Properties of the Site Kit filter (SpecSiteKitFilter) *)

\* the triggers that came in with $gtag_opt
IncomingTriggers ==
  IF "triggers" \in DOMAIN gtagOpt THEN gtagOpt.triggers ELSE <<>>

\* the triggers synthesized for the tracking ID of $gtag_opt
SynthesizedTriggers ==
  get_default_configuration(gtagOpt.vars.gtag_id).triggers

\* C12: on a single story the filter returns $gtag_opt with the triggers
\* being the synthesized ones together with the incoming ones, an incoming
\* trigger kept under its key, and every other key as it came in; on any
\* other view it returns $gtag_opt as it came in.
C12_FilterMergesWithoutOverwriting ==
  filterDone =>
    IF isSingularStory
    THEN /\ DOMAIN filterResult = DOMAIN gtagOpt \cup {"triggers"}
         /\ \A k \in DOMAIN gtagOpt \ {"triggers"} :
              filterResult[k] = gtagOpt[k]
         /\ DOMAIN filterResult.triggers =
              DOMAIN SynthesizedTriggers \cup DOMAIN IncomingTriggers
         /\ \A k \in DOMAIN IncomingTriggers :
              filterResult.triggers[k] = IncomingTriggers[k]
         /\ \A k \in DOMAIN SynthesizedTriggers \ DOMAIN IncomingTriggers :
              filterResult.triggers[k] = SynthesizedTriggers[k]
    ELSE filterResult = gtagOpt

\* a story view; storyEnd and siteKitEvent came in and are kept, storyOpen
\* is added, optoutElementId is as it came in
C12_Witness ==
  /\ filterDone
  /\ isSingularStory
  /\ "optoutElementId" \in DOMAIN gtagOpt
  /\ "triggers" \in DOMAIN gtagOpt
  /\ DOMAIN gtagOpt.triggers = {"storyEnd", "siteKitEvent"}
  /\ filterResult.triggers.storyEnd = gtagOpt.triggers.storyEnd
  /\ filterResult.triggers.storyEnd.on # "story-last-page-visible"
  /\ filterResult.triggers.storyOpen.on = "story-open"
  /\ filterResult.optoutElementId = gtagOpt.optoutElementId

---------------------------------------------------------------------------
(* Properties of the lazy loaders with settling fetches (SpecLoadersFair) *)

C13_SettleStep ==
  /\ statusFetches' < statusFetches => isStatusesLoading' = FALSE
  /\ userFetches' < userFetches => isUsersLoading' = FALSE

\* C13: the step that settles a fetch, by success or by rejection, sets the
\* loading flag of its list to false; and with every started fetch settling
\* in the end, a loading flag that is true is false at some later time.
C13_LoadingFlagClears ==
  /\ [][C13_SettleStep]_vars
  /\ (isStatusesLoading ~> ~isStatusesLoading)
  /\ (isUsersLoading ~> ~isUsersLoading)

\* the one statuses fetch rejected, the one users fetch resolved, and both
\* flags are false
C13_Witness ==
  /\ getAllStatusesCalls = 1 /\ statusRejections = 1 /\ statusFetches = 0
  /\ ~isStatusesLoading
  /\ getAllUsersCalls = 1 /\ userRejections = 0 /\ userFetches = 0
  /\ users # <<>>
  /\ ~isUsersLoading

\* C14: once a reference list holds a non-empty result, no later load* call
\* invokes the fetch capability for that list and the stored list never
\* changes again.
C14_PopulatedStep ==
  /\ statuses # <<>> =>
       /\ statuses' = statuses
       /\ getAllStatusesCalls' = getAllStatusesCalls
  /\ users # <<>> =>
       /\ users' = users
       /\ getAllUsersCalls' = getAllUsersCalls

C14_PopulatedOnlyOnce == [][C14_PopulatedStep]_vars

\* C15: a change of the tab is no trigger of a reset.  A render that meets
\* the selection and the current page of the render before it leaves the
\* tab as it is; so a tab set to 'document' while elements are selected
\* stays 'document' until the provider meets another selection or page.
C15_TabChangeIsNoTrigger ==
  [][ ( /\ RenderStep
        /\ rendered'.selectedElementIds = rendered.selectedElementIds
        /\ rendered'.currentPage = rendered.currentPage )
      => tab' = tab ]_vars

\* the last render met a tab changed to 'document', with the same non-empty
\* selection and the same page as before, and the tab is still 'document'
C15_Witness ==
  /\ prevDeps.mounted
  /\ prevDeps.tab # DOCUMENT
  /\ rendered.tab = DOCUMENT
  /\ prevDeps.selectedElementIds # <<>>
  /\ rendered.selectedElementIds = prevDeps.selectedElementIds
  /\ rendered.currentPage = prevDeps.currentPage
  /\ tabRef = DOCUMENT
  /\ tab = DOCUMENT

\* C16: every value the opacity field passes to onChange is a fraction in
\* the closed range [0,1], whatever text was typed.
C16_OnChangeGetsFractionInUnitRange ==
  \A i \in DOMAIN onChangeArgs :
    /\ ~isNaN(onChangeArgs[i])
    /\ onChangeArgs[i].den > 0
    /\ 0 <= onChangeArgs[i].num
    /\ onChangeArgs[i].num <= onChangeArgs[i].den

\* C17: rule A runs on every change of selectedElementIds.  A render that
\* meets another selection, coming from an empty or a non-empty one, turns
\* the tab 'document' into 'design' when the new selection is non-empty;
\* a render that meets the selection become empty, on the same page, leaves
\* the tab as it is.
C17_RuleAOnEveryChange ==
  [][ /\ ( /\ RenderStep
           /\ rendered'.selectedElementIds # rendered.selectedElementIds
           /\ rendered'.selectedElementIds # <<>> )
         => IF tab = DOCUMENT THEN tab' = DESIGN ELSE tab' = tab
      /\ ( /\ RenderStep
           /\ rendered'.selectedElementIds # rendered.selectedElementIds
           /\ rendered'.selectedElementIds = <<>>
           /\ rendered'.currentPage = rendered.currentPage )
         => tab' = tab ]_vars

\* the last render met one non-empty selection replaced by another, on the
\* same page, with the tab 'document', and the tab is back to 'design'
C17_Witness ==
  /\ prevDeps.mounted
  /\ prevDeps.selectedElementIds # <<>>
  /\ rendered.selectedElementIds # <<>>
  /\ rendered.selectedElementIds # prevDeps.selectedElementIds
  /\ prevDeps.currentPage = rendered.currentPage
  /\ rendered.tab = DOCUMENT
  /\ tabRef = DOCUMENT
  /\ tab = DESIGN

---------------------------------------------------------------------------
(* Properties of the Site Kit module check (SpecAnalytics) *)

\* 'analytics' is one of the slugs of a module-list option that is an array
ListsAnalytics(option) ==
  /\ option.is_array
  /\ \E i \in DOMAIN option.items : option.items[i] = "analytics"

\* C18: is_site_kit_analytics_module_active is true exactly when Site Kit is
\* present and 'analytics' is in the consulted list: the option
\* googlesitekit_active_modules whenever it is an array, even an empty one,
\* and the legacy option only when the first is no array.  Without Site Kit
\* the result is false whatever the options hold.
C18_ActiveIffListedInConsultedOption ==
  /\ is_site_kit_analytics_module_active <=>
       /\ siteKitDefined
       /\ IF activeModulesOption.is_array
          THEN ListsAnalytics(activeModulesOption)
          ELSE ListsAnalytics(legacyModulesOption)
  /\ ~siteKitDefined => ~is_site_kit_analytics_module_active

\* Site Kit is present, the first option is an empty array and the legacy
\* option lists 'analytics': the module counts as inactive, and the tag was
\* printed
C18_Witness ==
  /\ printed
  /\ siteKitDefined
  /\ activeModulesOption = [is_array |-> TRUE, items |-> <<>>]
  /\ ListsAnalytics(legacyModulesOption)
  /\ ~is_site_kit_analytics_module_active
  /\ TagEmitted

=============================================================================
